---------------------------- MODULE Spec2Model ----------------------------
(***************************************************************************)
(* A model of src/tools.py: the transit search (MaskOutliers,              *)
(* GetChunkData, Search with its on-disk cache) and the period/phase       *)
(* folding (Heatmap, Load.heatmap).                                        *)
(*                                                                         *)
(* Numbers.  Times are integers; a quantity that the code derives from a   *)
(* median (a cadence spacing, a grid slot) may be a half-integer, and is   *)
(* kept doubled (suffix 2).  Floating point values of the scan are exact   *)
(* rationals [n, d] with d > 0, extended the IEEE way: d = 0 is +inf       *)
(* (n = 1), -inf (n = -1) or NaN (n = 0).                                  *)
(*                                                                         *)
(* Covariance.  GetCovariance is external; the model draws diagonal        *)
(* matrices, given by their diagonal, so cho_factor succeeds exactly when  *)
(* every entry is positive and cho_solve divides entrywise.                *)
(***************************************************************************)
EXTENDS Integers, Sequences, FiniteSets, TLC

VARIABLES
  star,   \* the everest star object handed to Search (its masks are mutated)
  env,    \* what the surroundings fix: the numpy build, the transit duration
  store,  \* the files target<ID>.search<jf>.npz
  args,   \* the arguments of the last call
  ret,    \* the outcome of the last call: what it returned, or the exception
  calls,  \* the operations the last call performed, in order
  hm      \* the inputs of the last Heatmap call

vars == <<star, env, store, args, ret, calls, hm>>

---------------------------------------------------------------------------
(* Bounds of the model *)

\* times of the drawn light curves lie in 0 .. MaxTime
MaxTime == 5
\* the drawn light curves have 0 .. MaxCad cadences
MaxCad == 6
\* trial periods of the folding are 1 .. MaxPeriod
MaxPeriod == 4
\* trial phases of the folding are 0 / PhaseDen .. (PhaseDen - 1) / PhaseDen
PhaseDen == 2

---------------------------------------------------------------------------
(* Sequences and integers *)

Abs(x) == IF x < 0 THEN -x ELSE x

Max(a, b) == IF a >= b THEN a ELSE b

RECURSIVE GCD(_, _)
\* for a, b >= 0
GCD(a, b) == IF b = 0 THEN a ELSE GCD(b, a % b)

\* ceil(a / b) and trunc(a / b) for b > 0
CeilDiv(a, b) == -((-a) \div b)

TruncDiv(a, b) == IF a >= 0 THEN a \div b ELSE -((-a) \div b)

Range(s) == {s[i] : i \in DOMAIN s}

\* round(a / b) for a >= 0 and b > 0; a tie goes to the even neighbour
\* (Python 3, numpy) or away from zero (Python 2)
Round(a, b, mode) ==
  LET q == a \div b
      r == a % b
  IN  IF 2 * r < b THEN q
      ELSE IF 2 * r > b THEN q + 1
      ELSE IF mode = "away" \/ q % 2 = 1 THEN q + 1 ELSE q

RECURSIVE SetToSeq(_)
\* the elements of a finite set of integers, ascending
SetToSeq(S) ==
  IF S = {} THEN <<>>
  ELSE LET x == CHOOSE y \in S : \A z \in S : y <= z
       IN  <<x>> \o SetToSeq(S \ {x})

RECURSIVE Insert(_, _)
Insert(x, s) ==
  IF s = <<>> THEN <<x>>
  ELSE IF x <= Head(s) THEN <<x>> \o s
  ELSE <<Head(s)>> \o Insert(x, Tail(s))

RECURSIVE Sort(_)
Sort(s) == IF s = <<>> THEN <<>> ELSE Insert(Head(s), Sort(Tail(s)))

\* np.diff
Diff(s) == [i \in 1 .. Max(Len(s) - 1, 0) |-> s[i + 1] - s[i]]

\* twice np.median / np.nanmedian of a non-empty integer sequence
Median2(s) ==
  LET o == Sort(s)
      n == Len(s)
  IN  IF n % 2 = 1 THEN 2 * o[(n + 1) \div 2]
      ELSE o[n \div 2] + o[n \div 2 + 1]

StrictlyIncreasing(s) == \A i \in 1 .. Len(s) - 1 : s[i] < s[i + 1]

---------------------------------------------------------------------------
(* Floating point values of the scan, as extended rationals *)

Rat(n, d) ==
  IF d = 0 THEN [n |-> IF n > 0 THEN 1 ELSE IF n < 0 THEN -1 ELSE 0, d |-> 0]
  ELSE LET g == GCD(Abs(n), Abs(d))
           sg == IF d < 0 THEN -1 ELSE 1
       IN  [n |-> sg * (n \div g), d |-> sg * (d \div g)]

Int2Rat(n) == [n |-> n, d |-> 1]

Zero == Int2Rat(0)

NaN == [n |-> 0, d |-> 0]

\* np.isfinite
IsFinite(x) == x.d > 0

IsNaN(x) == x = NaN

\* the operands of these three are finite wherever the scan uses them
RAdd(x, y) == Rat(x.n * y.d + y.n * x.d, x.d * y.d)

RSub(x, y) == Rat(x.n * y.d - y.n * x.d, x.d * y.d)

RMul(x, y) == Rat(x.n * y.n, x.d * y.d)

\* x / y in floating point: a finite x over zero is an infinity, 0 / 0 is NaN
RDiv(x, y) == Rat(x.n * y.d, x.d * y.n)

RECURSIVE DotFrom(_, _, _, _)
DotFrom(a, b, C, j) ==
  IF j > Len(a) THEN Zero
  ELSE RAdd(RDiv(RMul(a[j], b[j]), Int2Rat(C[j])), DotFrom(a, b, C, j + 1))

\* np.dot(a, cho_solve(C, b)) for the factorization C of diag(C)
DotSolve(a, b, C) == DotFrom(a, b, C, 1)

---------------------------------------------------------------------------
(* The star (everest.Everest fields read by tools.py) *)

\* the union of the star's four masks (everest's star.mask), as cadence positions
Mask(s) == s.nanmask \cup s.badmask \cup s.outmask \cup s.transitmask

\* star.get_masked_chunk(chunk, pad = False): the unmasked cadence positions of
\* the chunk that ends at breakpoints[chunk], ascending
get_masked_chunk(s, chunk) ==
  LET lo == IF chunk = 1 THEN 1 ELSE s.breakpoints[chunk - 1] + 1
      hi == s.breakpoints[chunk]
  IN  SetToSeq((lo .. hi) \ Mask(s))

\* GetCovariance(...) + the PLD term of a joint fit, restricted to m; the
\* design matrix of the drawn stars has orthogonal rows, so XM . XM^T is
\* diagonal with entries X[i]^2, and pld_order is 1
Covariance(s, chunk, m, joint_fit) ==
  [j \in 1 .. Len(m) |->
     s.kdiag[m[j]]
       + (IF joint_fit THEN s.lam[chunk] * s.X[m[j]] * s.X[m[j]] ELSE 0)]

\* cho_factor raises LinAlgError unless the matrix is positive definite
PositiveDefinite(K) == \A j \in 1 .. Len(K) : K[j] > 0

---------------------------------------------------------------------------
(* GetChunkData *)

\* np.arange(first, last + tol, dt), doubled, for dt2 = 2 dt > 0 and tol = dt / 5
Arange2(first, last, dt2) ==
  LET n == CeilDiv(10 * (last - first) + dt2, 5 * dt2)
  IN  [i \in 1 .. Max(n, 0) |-> 2 * first + (i - 1) * dt2]

RECURSIVE GridLoop(_, _, _, _, _, _, _)
\* the loop over tunif: obs2 are the doubled observed times, j the cursor
GridLoop(obs2, tunif2, dt2, i, j, time2, gaps) ==
  IF i > Len(tunif2) THEN [time |-> time2, gaps |-> gaps]
  ELSE IF 5 * Abs(obs2[j] - tunif2[i]) < dt2
       THEN IF j = Len(obs2)
            THEN [time |-> [time2 EXCEPT ![i] = obs2[j]], gaps |-> gaps]
            ELSE GridLoop(obs2, tunif2, dt2, i + 1, j + 1,
                          [time2 EXCEPT ![i] = obs2[j]], gaps)
       ELSE GridLoop(obs2, tunif2, dt2, i + 1, j, time2, Append(gaps, i))

Raised(e) == [err |-> e, time |-> <<>>, gaps |-> <<>>, flux |-> <<>>, C |-> <<>>]

\* arangeNaN is what np.arange does with a NaN step and stop: numpy builds
\* differ ("raise": ValueError; "empty": an empty array)
GetChunkData(s, chunk, joint_fit, arangeNaN) ==
  LET m == get_masked_chunk(s, chunk)
      K == Covariance(s, chunk, m, joint_fit)
      flux == [j \in 1 .. Len(m) |-> IF joint_fit THEN s.fraw[m[j]] ELSE s.flux[m[j]]]
      obs == [j \in 1 .. Len(m) |-> s.time[m[j]]]
  IN  IF Len(m) > 0 /\ ~PositiveDefinite(K) THEN Raised("LinAlgError")
      ELSE IF Len(m) = 0 THEN Raised("IndexError")
      ELSE IF Len(m) = 1
           THEN IF arangeNaN = "raise" THEN Raised("ValueError")
                ELSE [err |-> "none", time |-> <<>>, gaps |-> <<>>,
                      flux |-> flux, C |-> K]
      ELSE LET dt2 == Median2(Diff(obs))
               tunif2 == Arange2(obs[1], obs[Len(obs)], dt2)
               g == GridLoop([j \in 1 .. Len(obs) |-> 2 * obs[j]], tunif2, dt2,
                             1, 1, tunif2, <<>>)
           IN  [err |-> "none", time |-> g.time, gaps |-> g.gaps,
                flux |-> flux, C |-> K]

---------------------------------------------------------------------------
(* MaskOutliers *)

\* 1.4826, in units of 1/10000
MADScale == 14826

\* the defaults of pos_tol (2.5) and neg_tol (50.), in tenths
DefaultPosTol == 25

DefaultNegTol == 500

\* the cadence positions left by np.delete(..., nanmask + badmask), ascending
Kept(s) == SetToSeq((1 .. Len(s.time)) \ (s.nanmask \cup s.badmask))

\* f is SavGol's output for the kept cadences (external; the caller draws it),
\* pos_tol and neg_tol are in tenths.  With med2 = 2 med and
\* mad4 = 4 nanmedian(|f - med|), f[i] > med + pos_tol * 1.4826 * mad4 / 4 is
\* 200000 (2 f[i] - med2) > pos_tol10 * 14826 * mad4.
MaskOutliers(s, f, pos_tol, neg_tol) ==
  LET t == Kept(s)
      med2 == IF Len(f) = 0 THEN 0 ELSE Median2(f)
      mad4 == IF Len(f) = 0 THEN 0
              ELSE Median2([i \in 1 .. Len(f) |-> Abs(2 * f[i] - med2)])
      pos_inds == {t[i] : i \in {k \in 1 .. Len(f) :
                     200000 * (2 * f[k] - med2) > pos_tol * MADScale * mad4}}
      neg_inds == {t[i] : i \in {k \in 1 .. Len(f) :
                     200000 * (med2 - 2 * f[k]) > neg_tol * MADScale * mad4}}
  IN  [s EXCEPT !.outmask = neg_inds \cup pos_inds, !.transitmask = {}]

---------------------------------------------------------------------------
(* Search: the scan of one chunk *)

\* transit_model(t, t[i]) of TransitShape() (external): the drawn shapes are
\* 1 within dur / 2 of the centre and 0 elsewhere (dur = 0: a unit impulse)
Shape(t2, i, dur) ==
  [j \in 1 .. Len(t2) |-> IF Abs(t2[j] - t2[i]) <= dur THEN 1 ELSE 0]

RECURSIVE DeleteFrom(_, _, _)
DeleteFrom(a, gaps, j) ==
  IF j > Len(a) THEN <<>>
  ELSE (IF j \in Range(gaps) THEN <<>> ELSE <<a[j]>>) \o DeleteFrom(a, gaps, j + 1)

\* np.delete(a, gaps)
Delete(a, gaps) == DeleteFrom(a, gaps, 1)

\* lnL0 = -0.5 * np.dot(flux, cho_solve(C, flux))
LnLike(r, C) == RMul(Rat(-1, 2), DotSolve(r, r, C))

\* lines 163-164 without line 165 (trn *= baseline)
ShapeNotScaled(t, gaps, baseline, dur, i) ==
  LET sh == Delete(Shape(t, i, dur), gaps)
  IN  [j \in 1 .. Len(sh) |-> Int2Rat(sh[j])]

\* lines 163-165: the shape centred on t[i], without its gap entries, times
\* the baseline
ScaledShape(t, gaps, baseline, dur, i) ==
  LET sh == Delete(Shape(t, i, dur), gaps)
  IN  [j \in 1 .. Len(sh) |-> RMul(Int2Rat(sh[j]), baseline)]

\* 1. / np.dot(trn, cho_solve(C, trn))
Variance(trn, C) == RDiv(Int2Rat(1), DotSolve(trn, trn, C))

\* the residual vector flux - trn * d
Residual(flux, trn, d) ==
  [j \in 1 .. Len(flux) |-> RSub(flux[j], RMul(trn[j], d))]

\* -2 * (lnL0 - lnL)
DeltaChisq(lnL0, lnL) == RMul(Int2Rat(-2), RSub(lnL0, lnL))

\* the loop body without the test of line 171: an infinite variance is
\* stored as it is, and depth and delta chisq keep their zeros
CandidateKeepInf(t, gaps, flux, C, baseline, lnL0, dur, i) ==
  LET trn == ScaledShape(t, gaps, baseline, dur, i)
  IN  IF Len(trn) # Len(C)
      THEN [err |-> "ValueError", d |-> Zero, var |-> Zero, dchisq |-> Zero]
      ELSE
        LET v == Variance(trn, C)
        IN  IF ~IsFinite(v)
            THEN [err |-> "none", d |-> Zero, var |-> v, dchisq |-> Zero]
            ELSE
              LET di == RMul(v, DotSolve(trn, flux, C))
                  lnL == LnLike(Residual(flux, trn, di), C)
              IN  [err |-> "none", d |-> di, var |-> v,
                   dchisq |-> DeltaChisq(lnL0, lnL)]

\* the loop body (lines 162-187) for candidate i: what it stores in d[i],
\* var[i] and dchisq[i]; cho_solve raises ValueError when trn and C differ in
\* length
Candidate(t, gaps, flux, C, baseline, lnL0, dur, i) ==
  LET trn == ScaledShape(t, gaps, baseline, dur, i)
  IN  IF Len(trn) # Len(C)
      THEN [err |-> "ValueError", d |-> Zero, var |-> Zero, dchisq |-> Zero]
      ELSE
        LET v == Variance(trn, C)
        IN  IF ~IsFinite(v)
            THEN [err |-> "none", d |-> NaN, var |-> NaN, dchisq |-> NaN]
            ELSE
              LET di == RMul(v, DotSolve(trn, flux, C))
                  lnL == LnLike(Residual(flux, trn, di), C)
              IN  [err |-> "none", d |-> di, var |-> v,
                   dchisq |-> DeltaChisq(lnL0, lnL)]

RECURSIVE ScanLoopBreak(_, _, _, _, _, _, _, _, _, _, _)
\* ScanLoop, but the degenerate candidate ends the loop (break for continue)
ScanLoopBreak(t, gaps, flux, C, baseline, lnL0, dur, i, d, var, dchisq) ==
  IF i > Len(t) THEN [err |-> "none", d |-> d, var |-> var, dchisq |-> dchisq]
  ELSE
    LET c == Candidate(t, gaps, flux, C, baseline, lnL0, dur, i)
        d1 == [d EXCEPT ![i] = c.d]
        var1 == [var EXCEPT ![i] = c.var]
        dchisq1 == [dchisq EXCEPT ![i] = c.dchisq]
    IN  IF c.err # "none"
        THEN [err |-> c.err, d |-> d, var |-> var, dchisq |-> dchisq]
        ELSE IF IsNaN(c.var)
        THEN [err |-> "none", d |-> d1, var |-> var1, dchisq |-> dchisq1]
        ELSE ScanLoopBreak(t, gaps, flux, C, baseline, lnL0, dur, i + 1,
                           d1, var1, dchisq1)

RECURSIVE ScanLoop(_, _, _, _, _, _, _, _, _, _, _)
\* for i in range(len(t)), from candidate i on; d, var and dchisq are the
\* arrays as the earlier candidates left them
ScanLoop(t, gaps, flux, C, baseline, lnL0, dur, i, d, var, dchisq) ==
  IF i > Len(t) THEN [err |-> "none", d |-> d, var |-> var, dchisq |-> dchisq]
  ELSE
    LET c == Candidate(t, gaps, flux, C, baseline, lnL0, dur, i)
    IN  IF c.err # "none"
        THEN [err |-> c.err, d |-> d, var |-> var, dchisq |-> dchisq]
        ELSE ScanLoop(t, gaps, flux, C, baseline, lnL0, dur, i + 1,
                      [d EXCEPT ![i] = c.d], [var EXCEPT ![i] = c.var],
                      [dchisq EXCEPT ![i] = c.dchisq])

\* np.nanmedian(flux)
Baseline(flux) == Rat(Median2(flux), 2)

\* lines 145-187 for the chunk data g = (t, gaps, flux, C)
ScanChunk(g, dur) ==
  LET flux == [j \in 1 .. Len(g.flux) |-> Int2Rat(g.flux[j])]
      baseline == Baseline(g.flux)
      lnL0 == LnLike(flux, g.C)
      zeros == [j \in 1 .. Len(g.time) |-> Zero]
  IN  ScanLoop(g.time, g.gaps, flux, g.C, baseline, lnL0, dur, 1, zeros, zeros, zeros)

---------------------------------------------------------------------------
(* Search: the chunk loop and the cache *)

Call(op, chunk) == [op |-> op, chunk |-> chunk]

EmptyResult ==
  [time |-> <<>>, ml_depth |-> <<>>, depth_variance |-> <<>>, delta_chisq |-> <<>>]

Outcome(err, res) ==
  [err |-> err, time |-> res.time, ml_depth |-> res.ml_depth,
   depth_variance |-> res.depth_variance, delta_chisq |-> res.delta_chisq]

RECURSIVE ChunkLoopSkip(_, _, _, _, _, _)
\* ChunkLoop, but a chunk whose GetChunkData raises is skipped
ChunkLoopSkip(s, joint_fit, e, b, acc, log) ==
  IF b > Len(s.breakpoints) THEN [err |-> "none", res |-> acc, log |-> log]
  ELSE
    LET g == GetChunkData(s, b, joint_fit, e.arangeNaN)
        log1 == Append(log, Call("GetChunkData", b))
    IN  IF g.err # "none" THEN ChunkLoopSkip(s, joint_fit, e, b + 1, acc, log1)
        ELSE
          LET sc == ScanChunk(g, e.dur)
              log2 == Append(log1, Call("scan", b))
          IN  IF sc.err # "none"
              THEN [err |-> sc.err, res |-> EmptyResult, log |-> log2]
              ELSE ChunkLoopSkip(s, joint_fit, e, b + 1,
                     [time |-> acc.time \o g.time,
                      ml_depth |-> acc.ml_depth \o sc.d,
                      depth_variance |-> acc.depth_variance \o sc.var,
                      delta_chisq |-> acc.delta_chisq \o sc.dchisq],
                     log2)

RECURSIVE ChunkLoop(_, _, _, _, _, _)
\* the loop over star.breakpoints: acc holds the four output arrays, log the
\* operations done so far; an exception ends the loop and leaves Search
ChunkLoop(s, joint_fit, e, b, acc, log) ==
  IF b > Len(s.breakpoints) THEN [err |-> "none", res |-> acc, log |-> log]
  ELSE
    LET g == GetChunkData(s, b, joint_fit, e.arangeNaN)
        log1 == Append(log, Call("GetChunkData", b))
    IN  IF g.err # "none" THEN [err |-> g.err, res |-> EmptyResult, log |-> log1]
        ELSE
          LET sc == ScanChunk(g, e.dur)
              log2 == Append(log1, Call("scan", b))
          IN  IF sc.err # "none"
              THEN [err |-> sc.err, res |-> EmptyResult, log |-> log2]
              ELSE ChunkLoop(s, joint_fit, e, b + 1,
                     [time |-> acc.time \o g.time,
                      ml_depth |-> acc.ml_depth \o sc.d,
                      depth_variance |-> acc.depth_variance \o sc.var,
                      delta_chisq |-> acc.delta_chisq \o sc.dchisq],
                     log2)

\* 'target%02d.search%d.npz' % (star.ID, int(joint_fit))
FileName(ID, joint_fit) == <<ID, IF joint_fit THEN 1 ELSE 0>>

NoFile == [exists |-> FALSE, data |-> EmptyResult]

\* np.savez(name, time = ..., ml_depth = ..., depth_variance = ..., delta_chisq = ...)
Savez(time, ml_depth, depth_variance, delta_chisq) ==
  [exists |-> TRUE,
   data |-> [time |-> time, ml_depth |-> ml_depth,
             depth_variance |-> depth_variance, delta_chisq |-> delta_chisq]]

\* np.load(name) and the four reads data['...'], in the order of the return
LoadFile(file) ==
  [time |-> file.data.time, ml_depth |-> file.data.ml_depth,
   depth_variance |-> file.data.depth_variance,
   delta_chisq |-> file.data.delta_chisq]

\* os.path.exists(name)
Exists(name) == store[name].exists

\* the test of line 125 with its second operand not negated
RecomputeIfExists(joint_fit, clobber) ==
  clobber \/ Exists(FileName(star.ID, joint_fit))

\* the test of line 125
Recompute(joint_fit, clobber) == clobber \/ ~Exists(FileName(star.ID, joint_fit))

\* Search(star, joint_fit, clobber, pos_tol, neg_tol); f is SavGol's output
Search(joint_fit, clobber, f, pos_tol, neg_tol) ==
  LET name == FileName(star.ID, joint_fit)
  IN  IF Recompute(joint_fit, clobber)
      THEN \E s1 \in {MaskOutliers(star, f, pos_tol, neg_tol)} :
           \E out \in {ChunkLoop(s1, joint_fit, env, 1, EmptyResult,
                                 <<Call("MaskOutliers", 0)>>)} :
               /\ star' = s1
               /\ IF out.err = "none"
                  THEN /\ store' = [store EXCEPT ![name] =
                                      Savez(out.res.time, out.res.ml_depth,
                                            out.res.depth_variance,
                                            out.res.delta_chisq)]
                       /\ calls' = Append(out.log, Call("savez", 0))
                       /\ ret' = Outcome("none", out.res)
                  ELSE /\ store' = store
                       /\ calls' = out.log
                       /\ ret' = Outcome(out.err, EmptyResult)
      ELSE /\ ret' = Outcome("none", LoadFile(store[name]))
           /\ calls' = <<Call("load", 0)>>
           /\ UNCHANGED <<star, store>>

---------------------------------------------------------------------------
(* The search with its cache: one star, Search called again and again *)

UniformTime(N) == [i \in 1 .. N |-> i - 1]

\* SavGol outputs drawn for n kept cadences: a ramp, or a ramp with a spike
\* at its first or its last cadence
SavGolOutputs(n) ==
  {[i \in 1 .. n |-> i]}
    \cup {[i \in 1 .. n |-> IF i = p THEN 100 ELSE i] : p \in {1, n} \cap (1 .. n)}

SearchStars ==
  {[ID |-> 1, time |-> UniformTime(MaxCad),
    flux |-> [i \in 1 .. MaxCad |-> IF i = 2 THEN 1 ELSE 2],
    fraw |-> [i \in 1 .. MaxCad |-> 3],
    kdiag |-> [i \in 1 .. MaxCad |-> IF i = bad THEN 0 ELSE 1],
    X |-> [i \in 1 .. MaxCad |-> 1],
    lam |-> [b \in 1 .. Len(bp) |-> 1],
    nanmask |-> nm, badmask |-> {}, outmask |-> {}, transitmask |-> tm,
    breakpoints |-> bp] :
     bad \in {0, 3, MaxCad}, nm \in {{}, {3}}, tm \in {{}, {1}},
     bp \in {<<MaxCad>>, <<2, 4, MaxCad>>}}

FileNames == {FileName(1, jf) : jf \in BOOLEAN}

NoCall == Outcome("nocall", EmptyResult)

Init ==
  /\ star \in SearchStars
  /\ env \in [arangeNaN : {"raise", "empty"}, dur : {0, 2}]
  /\ store = [name \in FileNames |-> NoFile]
  /\ args = [joint_fit |-> FALSE, clobber |-> FALSE]
  /\ ret = NoCall
  /\ calls = <<>>
  /\ hm = <<>>

SearchCall ==
  \E joint_fit \in BOOLEAN, clobber \in BOOLEAN :
    \E f \in SavGolOutputs(Len(Kept(star))) :
      /\ Search(joint_fit, clobber, f, DefaultPosTol, DefaultNegTol)
      /\ args' = [joint_fit |-> joint_fit, clobber |-> clobber]
      /\ UNCHANGED <<env, hm>>

Next == SearchCall

Spec == Init /\ [][Next]_vars

Result(r) ==
  [time |-> r.time, ml_depth |-> r.ml_depth,
   depth_variance |-> r.depth_variance, delta_chisq |-> r.delta_chisq]

\* the file of the call that the step performs
CalledName == FileName(star.ID, args'.joint_fit)

(* C1: a Search call with clobber = False for a key that has a persisted     *)
(* result performs the load and nothing else (no MaskOutliers, no            *)
(* GetChunkData, no scan, no write), leaves the star and the store as they   *)
(* were and returns the four persisted sequences; and a call without forced  *)
(* recompute that follows a successful call for the same key returns what    *)
(* that call returned.                                                       *)
C1_CacheHit ==
  [][/\ (~args'.clobber /\ Exists(CalledName))
          => /\ calls' = <<Call("load", 0)>>
             /\ star' = star
             /\ store' = store
             /\ ret'.err = "none"
             /\ Result(ret') = store[CalledName].data
     /\ (~args'.clobber /\ ret.err = "none" /\ args.joint_fit = args'.joint_fit)
          => ret' = ret]_vars

\* a cache hit that follows a recompute which changed the masks and persisted
\* a non-empty result with an undefined entry in it
C1_Witness ==
  /\ calls = <<Call("load", 0)>>
  /\ ret.err = "none"
  /\ Len(ret.time) > 1
  /\ star.outmask # {}
  /\ \E i \in 1 .. Len(ret.time) : IsNaN(ret.ml_depth[i])
  /\ \E i \in 1 .. Len(ret.time) : IsFinite(ret.ml_depth[i])

\* the covariance of chunk b of star s is not positive definite
NonPDChunk(s, joint_fit, b) ==
  LET m == get_masked_chunk(s, b)
  IN  Len(m) > 0 /\ ~PositiveDefinite(Covariance(s, b, m, joint_fit))

LastCall(log) == log[Len(log)]

(* C10, as first stated: once Search has failed on a covariance that is not  *)
(* positive definite, no result is persisted for the key of that call.       *)
C10_Original ==
  ret.err = "LinAlgError" => ~Exists(FileName(star.ID, args.joint_fit))

(* C10, amended: a failed factorization leaves Search as an exception.  The  *)
(* call ends at the GetChunkData of the first chunk whose covariance is not  *)
(* positive definite: that chunk is not scanned, no later chunk is           *)
(* prepared or scanned, nothing is returned and nothing is written, so the   *)
(* store is as it was before the call; and a recomputing call on a star with *)
(* such a chunk never returns a result.                                      *)
C10_FailurePropagates ==
  [][/\ ret'.err = "LinAlgError"
          => /\ store' = store
             /\ Result(ret') = EmptyResult
             /\ LastCall(calls').op = "GetChunkData"
             /\ NonPDChunk(star', args'.joint_fit, LastCall(calls').chunk)
             /\ \A k \in 1 .. Len(calls') :
                  /\ calls'[k].chunk <= LastCall(calls').chunk
                  /\ calls'[k].op # "savez"
                  /\ calls'[k].op = "scan"
                       => calls'[k].chunk < LastCall(calls').chunk
     /\ ((args'.clobber \/ ~Exists(CalledName))
           /\ \E b \in 1 .. Len(star'.breakpoints) :
                NonPDChunk(star', args'.joint_fit, b))
          => ret'.err \notin {"none", "nocall"}]_vars

\* the factorization of the second of three chunks failed after the first
\* chunk had been scanned, and the key has no file
C10_Witness ==
  /\ ret.err = "LinAlgError"
  /\ Len(star.breakpoints) = 3
  /\ calls = <<Call("MaskOutliers", 0), Call("GetChunkData", 1), Call("scan", 1),
               Call("GetChunkData", 2)>>
  /\ ~Exists(FileName(star.ID, args.joint_fit))

---------------------------------------------------------------------------
(* The scan: a fresh Search of a one-chunk star with gaps *)

\* the input of the end-to-end example
ExampleTime == <<0, 1, 2, 3, 4, 5>>

ExampleFlux == <<0, 0, 0, -1, 0, 0>>

OneChunkStar(time, flux, kdiag, badmask) ==
  [ID |-> 1, time |-> time, flux |-> flux, fraw |-> flux, kdiag |-> kdiag,
   X |-> [i \in 1 .. Len(time) |-> 0], lam |-> <<0>>,
   nanmask |-> {}, badmask |-> badmask, outmask |-> {}, transitmask |-> {},
   breakpoints |-> <<Len(time)>>]

ExampleStar ==
  OneChunkStar(ExampleTime, ExampleFlux, [i \in 1 .. 6 |-> 1], {})

\* cadences 0, 1, ... with two cadences missing in the middle
GappedTime(N) == [i \in 1 .. N |-> IF i <= N \div 2 THEN i - 1 ELSE i + 1]

\* a flat light curve, complete or with missing cadences, with one deviating
\* cadence, identity or alternating covariance, at most two flagged cadences
ScanStars ==
  {ExampleStar}
    \cup {OneChunkStar(time,
                       [i \in 1 .. MaxCad |-> IF i = p THEN base + v ELSE base],
                       [i \in 1 .. MaxCad |-> 1 + k * (i % 2)], bm) :
            time \in {UniformTime(MaxCad), GappedTime(MaxCad)},
            base \in {0, 2}, p \in 1 .. MaxCad, v \in {-1, 3}, k \in {0, 1},
            bm \in {m \in SUBSET (1 .. MaxCad) : Cardinality(m) <= 2}}

InitScan ==
  /\ star \in ScanStars
  /\ env \in [arangeNaN : {"raise"}, dur : {0, 2}]
  /\ store = [name \in FileNames |-> NoFile]
  /\ args = [joint_fit |-> FALSE, clobber |-> FALSE]
  /\ ret = NoCall
  /\ calls = <<>>
  /\ hm = <<>>

\* Search(star): no file yet, SavGol leaves a ramp, no outlier
FreshSearch ==
  /\ ret.err = "nocall"
  /\ hm = <<>>
  /\ Search(FALSE, FALSE, [i \in 1 .. Len(Kept(star)) |-> i],
            DefaultPosTol, DefaultNegTol)
  /\ args' = [joint_fit |-> FALSE, clobber |-> FALSE]
  /\ UNCHANGED <<env, hm>>

NextScan == FreshSearch

SpecScan == InitScan /\ [][NextScan]_vars

\* the chunk data of the one chunk, as the Search that has returned saw them
Grid == GetChunkData(star, 1, FALSE, env.arangeNaN)

GapSlots == Range(Grid.gaps)

Returned == ret.err = "none"

FluxRat == [j \in 1 .. Len(Grid.flux) |-> Int2Rat(Grid.flux[j])]

\* the scaled shape of candidate i
Trn(i) == ScaledShape(Grid.time, Grid.gaps, Baseline(Grid.flux), env.dur, i)

\* trn . K^-1 trn = 0: the variance of candidate i is not finite
Degenerate(i) == DotSolve(Trn(i), Trn(i), Grid.C) = Zero

AllNaN(i) ==
  /\ IsNaN(ret.ml_depth[i])
  /\ IsNaN(ret.depth_variance[i])
  /\ IsNaN(ret.delta_chisq[i])

AllFinite(i) ==
  /\ IsFinite(ret.ml_depth[i])
  /\ IsFinite(ret.depth_variance[i])
  /\ IsFinite(ret.delta_chisq[i])

(* C2, as first stated: every entry of the returned series that sits at a    *)
(* gap slot carries NaN as depth, variance and delta chisq.                  *)
C2_Original == Returned => \A i \in GapSlots : AllNaN(i)

(* C2, amended: the entry at a gap slot carries NaN as depth, variance and   *)
(* delta chisq exactly when the scaled shape centred on the slot is zero at  *)
(* every observed slot (the transit window holds no observed cadence, or the *)
(* baseline is 0); at every other gap slot the three values are finite, the  *)
(* values of a transit centred in the gap.                                   *)
C2_GapSlots ==
  Returned =>
    \A i \in GapSlots :
      IF \A j \in 1 .. Len(Trn(i)) : Trn(i)[j] = Zero
      THEN AllNaN(i)
      ELSE AllFinite(i)

\* a returned series with a gap slot of each kind
C2_Witness ==
  /\ Returned
  /\ \E i \in GapSlots : AllNaN(i)
  /\ \E i \in GapSlots : AllFinite(i)

(* C9: the scan stores NaN as depth, variance and delta chisq of every       *)
(* candidate whose variance is not finite and goes on: the series has one    *)
(* entry per grid slot, and every other candidate has the values of the      *)
(* matched filter, var = 1 / (trn . K^-1 trn), d = var (trn . K^-1 flux),    *)
(* delta chisq = flux . K^-1 flux - r . K^-1 r for r = flux - trn d.         *)
C9_Degenerate ==
  Returned =>
    /\ Len(ret.ml_depth) = Len(Grid.time)
    /\ Len(ret.depth_variance) = Len(Grid.time)
    /\ Len(ret.delta_chisq) = Len(Grid.time)
    /\ \A i \in 1 .. Len(Grid.time) :
         IF Degenerate(i) THEN AllNaN(i)
         ELSE /\ RMul(ret.depth_variance[i], DotSolve(Trn(i), Trn(i), Grid.C))
                   = Int2Rat(1)
              /\ ret.ml_depth[i]
                   = RMul(ret.depth_variance[i], DotSolve(Trn(i), FluxRat, Grid.C))
              /\ ret.delta_chisq[i]
                   = RSub(DotSolve(FluxRat, FluxRat, Grid.C),
                          LET r == Residual(FluxRat, Trn(i), ret.ml_depth[i])
                          IN  DotSolve(r, r, Grid.C))

\* a degenerate candidate with a regular candidate of non-zero delta chisq
\* after it
C9_Witness ==
  /\ Returned
  /\ \E i, k \in 1 .. Len(Grid.time) :
       /\ i < k
       /\ Degenerate(i)
       /\ AllNaN(i)
       /\ ~Degenerate(k)
       /\ IsFinite(ret.delta_chisq[k])
       /\ ret.delta_chisq[k] # Zero

IsExample == star = ExampleStar /\ env.dur = 0 /\ Returned

Square(x) == x * x

(* C3, as first stated: for the example input the scan gives lnL0 = -0.5,    *)
(* at index 3 variance 1, depth -1 and delta chisq 1, and at every other     *)
(* index a delta chisq of flux[i] squared.                                   *)
C3_Original ==
  IsExample =>
    /\ LnLike(FluxRat, Grid.C) = Rat(-1, 2)
    /\ ret.depth_variance[4] = Int2Rat(1)
    /\ ret.ml_depth[4] = Int2Rat(-1)
    /\ ret.delta_chisq[4] = Int2Rat(1)
    /\ \A i \in 1 .. 6 : ret.delta_chisq[i] = Int2Rat(Square(ExampleFlux[i]))

(* C3, amended: for the example input the scan gives lnL0 = -0.5; the        *)
(* baseline, the median flux, is 0, so the scaled impulse is zero, the       *)
(* variance of every candidate is infinite, and depth, variance and delta    *)
(* chisq are NaN at all six indices.                                         *)
C3_Example ==
  IsExample =>
    /\ LnLike(FluxRat, Grid.C) = Rat(-1, 2)
    /\ Baseline(Grid.flux) = Zero
    /\ Len(ret.time) = 6
    /\ \A i \in 1 .. 6 : AllNaN(i)

C3_Witness == IsExample /\ calls[Len(calls)] = Call("savez", 0)

---------------------------------------------------------------------------
(* The chunk preparer: GetChunkData, and a fresh Search, of one chunk with   *)
(* any observed times                                                        *)

\* every light curve of at most MaxCad cadences at times in 0 .. MaxTime, with
\* any of its cadences flagged
GridStars ==
  {OneChunkStar(SetToSeq(T), [i \in 1 .. Cardinality(T) |-> 1],
                [i \in 1 .. Cardinality(T) |-> 1], bm) :
     T \in {U \in SUBSET (0 .. MaxTime) : Cardinality(U) <= MaxCad},
     bm \in SUBSET (1 .. MaxCad)}

InitGrid ==
  /\ star \in {s \in GridStars : s.badmask \subseteq 1 .. Len(s.time)}
  /\ env \in [arangeNaN : {"raise", "empty"}, dur : {0}]
  /\ store = [name \in FileNames |-> NoFile]
  /\ args = [joint_fit |-> FALSE, clobber |-> FALSE]
  /\ ret = NoCall
  /\ calls = <<>>
  /\ hm = <<>>

\* GetChunkData(star, 0), called on its own; ret holds what it returns
PrepareChunk ==
  /\ ret.err = "nocall"
  /\ ret' = GetChunkData(star, 1, FALSE, env.arangeNaN)
  /\ calls' = <<Call("GetChunkData", 1)>>
  /\ UNCHANGED <<star, env, store, args, hm>>

NextGrid == PrepareChunk \/ FreshSearch

SpecGrid == InitGrid /\ [][NextGrid]_vars

\* the observed times of the chunk, doubled
Observed2 ==
  LET m == get_masked_chunk(star, 1)
  IN  [j \in 1 .. Len(m) |-> 2 * star.time[m[j]]]

Prepared == calls = <<Call("GetChunkData", 1)>> /\ ret.err = "none"

(* C6: the non-gap slots of the grid that GetChunkData returns are the       *)
(* chunk's observed times, each once and in order, the slot values increase, *)
(* the slot count is round((last - first) / dt) + 1 for the median spacing   *)
(* dt (whichever way a tie is rounded), and the count of non-gap slots is    *)
(* the length of the flux vector.  Stated for the chunks that have a         *)
(* spacing, those of two observed cadences or more.                          *)
C6_Claim ==
  (Prepared /\ Len(Observed2) >= 2) =>
    LET n == Len(Observed2)
        dt2 == Median2(Diff(Observed2)) \div 2
        span2 == Observed2[n] - Observed2[1]
    IN  /\ Delete(ret.time, ret.gaps) = Observed2
        /\ StrictlyIncreasing(ret.time)
        /\ \E mode \in {"even", "away"} : Len(ret.time) = Round(span2, dt2, mode) + 1
        /\ Len(ret.time) - Len(ret.gaps) = Len(ret.flux)

\* the Search of the chunk has run to its end
Searched == ~Prepared /\ ret.err # "nocall"

(* C7: a chunk of no observed cadence yields an empty result and a chunk of  *)
(* one observed cadence a result of one point; neither GetChunkData nor the  *)
(* Search of the chunk raises.                                               *)
C7_Claim ==
  (Len(Observed2) <= 1 /\ ret.err # "nocall") =>
    /\ ret.err = "none"
    /\ Len(ret.time) = Len(Observed2)
    /\ Searched => /\ Len(ret.ml_depth) = Len(Observed2)
                   /\ Len(ret.depth_variance) = Len(Observed2)
                   /\ Len(ret.delta_chisq) = Len(Observed2)

(* C8: when the cursor has not passed every observed time at the end of the  *)
(* grid, GetChunkData raises: it returns no grid with fewer filled slots     *)
(* than there are observed times.                                            *)
C8_Claim ==
  (calls = <<Call("GetChunkData", 1)>> /\ ret.err # "nocall"
     /\ Len(Observed2) >= 2)
    => (ret.err = "none" => Cardinality((1 .. Len(ret.time)) \ Range(ret.gaps))
                              >= Len(Observed2))

---------------------------------------------------------------------------
(* Heatmap.  A phase is ph / PhaseDen; a fold time t0 + k period is kept as  *)
(* PhaseDen (t - time[0]) = ph period + k PhaseDen period.                   *)

\* int((time[-1] - t0) / period) for t0 = time[0] + phase * period
LastFold(time, period, ph) ==
  TruncDiv(PhaseDen * (time[Len(time)] - time[1]) - ph * period,
           PhaseDen * period)

\* len(np.arange(t0, tf, period)) for tf = t0 + period * LastFold
FoldCount(time, period, ph) == Max(LastFold(time, period, ph), 0)

\* twice np.nanmedian(np.diff(time)); NaN (here 0) for a single time, where
\* no fold time exists that would use it
Spacing2(time) == IF Len(time) >= 2 THEN Median2(Diff(time)) ELSE 0

\* int(round((t - time[0]) / dt)) for the k-th fold time t = t0 + k period
FoldIndex(time, period, ph, k, mode) ==
  Round(2 * (ph * period + k * PhaseDen * period), PhaseDen * Spacing2(time), mode)

RECURSIVE FoldSum(_, _, _, _, _, _, _)
\* the loop over times from the k-th fold time on, of n; z accumulates
FoldSum(time, delta_chisq, period, ph, mode, k, n) ==
  IF k >= n THEN Zero
  ELSE RAdd(delta_chisq[FoldIndex(time, period, ph, k, mode) + 1],
            FoldSum(time, delta_chisq, period, ph, mode, k + 1, n))

\* delta_chisq[ind] raises IndexError for ind >= len(delta_chisq)
FoldRaises(time, delta_chisq, period, ph, mode) ==
  \E k \in 0 .. FoldCount(time, period, ph) - 1 :
    FoldIndex(time, period, ph, k, mode) >= Len(delta_chisq)

Heatmap(time, delta_chisq, periods, phases, mode) ==
  IF \E i \in 1 .. Len(periods), j \in 1 .. Len(phases) :
       FoldRaises(time, delta_chisq, periods[i], phases[j], mode)
  THEN [err |-> "IndexError", z |-> <<>>]
  ELSE [err |-> "none",
        z |-> [i \in 1 .. Len(periods) |-> [j \in 1 .. Len(phases) |->
                 FoldSum(time, delta_chisq, periods[i], phases[j], mode, 0,
                         FoldCount(time, periods[i], phases[j]))]]]

\* the call and its outcome
HeatmapCall(time, delta_chisq, periods, phases) ==
  \E out \in {Heatmap(time, delta_chisq, periods, phases, env.round)} :
    hm' = [time |-> time, delta_chisq |-> delta_chisq, periods |-> periods,
           phases |-> phases, err |-> out.err, z |-> out.z]

TrialPeriods == {<<p>> : p \in 1 .. MaxPeriod} \cup {<<1, MaxPeriod>>}

TrialPhases ==
  {<<ph>> : ph \in 0 .. PhaseDen - 1} \cup {[j \in 1 .. PhaseDen |-> j - 1]}

\* the stars whose search result is folded: complete, or with flagged
\* cadences at an end or inside
HeatStars ==
  {OneChunkStar(UniformTime(MaxCad), [i \in 1 .. MaxCad |-> IF i = 2 THEN 1 ELSE 2],
                [i \in 1 .. MaxCad |-> 1], bm) :
     bm \in {{}, {1}, {1, 2}, {3}, {MaxCad}}}

InitHeatmap ==
  /\ star \in HeatStars
  /\ env \in [arangeNaN : {"raise"}, dur : {0}, round : {"even", "away"}]
  /\ store = [name \in FileNames |-> NoFile]
  /\ args = [joint_fit |-> FALSE, clobber |-> FALSE]
  /\ ret = NoCall
  /\ calls = <<>>
  /\ hm = <<>>

\* Heatmap(time, delta_chisq, periods, phases) on a series drawn with its times
HeatmapDirect ==
  /\ hm = <<>>
  /\ ret.err = "nocall"
  /\ star.badmask = {}
  /\ \E T \in (SUBSET (0 .. MaxTime)) \ {{}} :
       /\ Cardinality(T) <= MaxCad
       /\ \E dc \in [1 .. Cardinality(T) -> {0, 1}] :
          \E periods \in TrialPeriods, phases \in TrialPhases :
            HeatmapCall(SetToSeq(T), [i \in 1 .. Cardinality(T) |-> Int2Rat(dc[i])],
                        periods, phases)
  /\ UNCHANGED <<star, env, store, args, ret, calls>>

\* Load.heatmap(delta_chisq) with the delta_chisq that Search returned
LoadHeatmap ==
  /\ hm = <<>>
  /\ ret.err = "none"
  /\ \E periods \in TrialPeriods, phases \in TrialPhases :
       HeatmapCall(star.time, ret.delta_chisq, periods, phases)
  /\ UNCHANGED <<star, env, store, args, ret, calls>>

NextHeatmap == FreshSearch \/ HeatmapDirect \/ LoadHeatmap

SpecHeatmap == InitHeatmap /\ [][NextHeatmap]_vars

Folded == hm # <<>>

Cells == {<<i, j>> \in (1 .. Len(hm.periods)) \X (1 .. Len(hm.phases)) : TRUE}

\* the fold times t0 + k period < time[last] are those of k < ClaimedCount
ClaimedCount(time, period, ph) ==
  Max(CeilDiv(PhaseDen * (time[Len(time)] - time[1]) - ph * period,
              PhaseDen * period), 0)

(* C4: cell (P, phi) holds the sum of the delta chisq at the nearest index   *)
(* of every fold time t0 + k P below time[last], each once, and nothing      *)
(* else.  Stated for the calls that return and the cells whose fold times    *)
(* all have their nearest index inside the series.                           *)
C4_Claim ==
  (Folded /\ hm.err = "none") =>
    \A c \in Cells :
      LET P == hm.periods[c[1]]
          ph == hm.phases[c[2]]
          n == ClaimedCount(hm.time, P, ph)
      IN  (\A k \in 0 .. n - 1 :
             FoldIndex(hm.time, P, ph, k, env.round) < Len(hm.delta_chisq))
            => hm.z[c[1]][c[2]]
                 = FoldSum(hm.time, hm.delta_chisq, P, ph, env.round, 0, n)

(* C5: every index that Heatmap computes lies in 0 .. len(delta_chisq) - 1,  *)
(* and the spacing it divides by is not zero, for the series handed in       *)
(* with their own times and for those of Load.heatmap.                       *)
C5_Claim ==
  Folded =>
    \A c \in Cells :
      \A k \in 0 .. FoldCount(hm.time, hm.periods[c[1]], hm.phases[c[2]]) - 1 :
        /\ Spacing2(hm.time) # 0
        /\ FoldIndex(hm.time, hm.periods[c[1]], hm.phases[c[2]], k, env.round)
             \in 0 .. Len(hm.delta_chisq) - 1

===========================================================================
